---- MODULE Spec2Model ----
(***************************************************************************)
(* Model of the SDMX-CSV ingestion of arelle/plugin/loadFromSDMX.py:       *)
(* _actual_loadFromSdmx reading a CSV document row by row into the host    *)
(* fact store (contexts, units, facts).                                    *)
(***************************************************************************)
EXTENDS Integers, Sequences, FiniteSets, TLC

\* ------------------------------------------------------------------ bounds
MaxRows == 3          \* rows that follow the header row in a document
MaxLoads == 2         \* loads of the document into the same store
MaxValLen == 4        \* characters of an observation value (decimals check)

\* ------------------------------------------------------- python primitives
None == "<None>"                      \* Python's None in a cell or variable
Falsy(c) == c = "" \/ c = None        \* "not c" for a cell (str or None)
Range(s) == {s[i] : i \in 1..Len(s)}
Min(S) == CHOOSE m \in S : \A x \in S : m <= x

\* --------------------------------------------------- the mapping document
\* sdmx-xbrl-map.json as loaded into the lookup tables (one sample document)
CSV_seriesKeyFirstCol == "FREQ"

\* sdmxName -> <<qnameDimConcept, qnameDomConcept, qnameMemConcept, isTyped>>
dimMappings ==
  [FREQ        |-> <<"dimFreq", "domFreq", None, FALSE>>,
   REF_AREA    |-> <<"dimArea", "domArea", None, TRUE>>,
   TIME_PERIOD |-> <<"dimTime", None, None, TRUE>>,
   UNIT_MEASURE |-> <<"dimUnit", "domUnit", None, TRUE>>]

\* qnameDimConcept -> (sdmxValue -> qnameMemConcept)
memMappings == [dimFreq |-> [A |-> "memA", M |-> "memM"]]

measureMappings == [OBS_VALUE |-> "Val", TURNOVER |-> "Turnover"]

attributeMappings == [OBS_STATUS |-> "attStatus", CONF_STATUS |-> "attConf"]

unitMappings == << <<"EUR", "uEUR">> >>      \* ordered: sdmxName, unitId

languageMappings == [FR |-> "fr"]

\* ordering of QNames (namespace, localName): all concepts share the namespace
QnRank(q) == CASE q = "dimArea" -> 1 [] q = "dimFreq" -> 2 [] q = "dimTime" -> 3
               [] OTHER -> 4

\* ------------------------------------------------------- header detection
\* first pass over the rows: header row, series-attribute row, headerLineNum
\* (seriesAttrValues = <<>> stands for None: the source only tests its truth)
Known(colName) == \/ colName \in DOMAIN dimMappings
                  \/ colName \in DOMAIN measureMappings
                  \/ colName \in DOMAIN attributeMappings

\* the row after the header, tested as the series-attribute row
SeriesAttrTest(hdr, row) ==
  LET dimFilled == {j \in 1..Len(row) : j <= Len(hdr) /\ hdr[j] \in DOMAIN dimMappings
                                         /\ row[j] # ""}
      brk == IF dimFilled = {} THEN Len(row) + 1 ELSE Min(dimFilled)
      indexError == Len(row) > Len(hdr) /\ brk > Len(hdr)
      hasSeriesAttrValues ==
          \E j \in 1..Len(row) : j < brk /\ j <= Len(hdr)
                                  /\ hdr[j] \notin DOMAIN dimMappings /\ row[j] # ""
  IN  [exc |-> IF indexError THEN "IndexError" ELSE "none",
       isAttrRow |-> dimFilled = {} /\ hasSeriesAttrValues /\ ~indexError]

RECURSIVE HeaderScan(_, _, _, _)
HeaderScan(f, i, hdr, lineNum) ==
  IF i > Len(f)
  THEN [found |-> hdr.found, header |-> hdr.row, seriesAttrValues |-> <<>>,
        missing |-> FALSE, headerLineNum |-> lineNum, exc |-> "none"]
  ELSE LET row == f[i] IN
    IF ~hdr.found
    THEN IF "OBS_VALUE" \in Range(row)
         THEN HeaderScan(f, i + 1, [found |-> TRUE, row |-> row], i - 1)
         ELSE IF \A c \in Range(row) : c # "" => Known(c)
         THEN HeaderScan(f, i + 1, [found |-> TRUE, row |-> row], i - 1)
         ELSE IF row # <<>> /\ row[1] = CSV_seriesKeyFirstCol
         THEN [found |-> FALSE, header |-> <<>>, seriesAttrValues |-> <<>>,
               missing |-> TRUE, headerLineNum |-> i - 1, exc |-> "none"]
         ELSE HeaderScan(f, i + 1, hdr, i - 1)
    ELSE LET t == SeriesAttrTest(hdr.row, row) IN
         [found |-> TRUE, header |-> hdr.row,
          seriesAttrValues |-> IF t.isAttrRow THEN row ELSE <<>>,
          missing |-> FALSE, headerLineNum |-> i - 1, exc |-> t.exc]

DetectHeader(f) == HeaderScan(f, 1, [found |-> FALSE, row |-> <<>>], 0)

\* ---------------------------------------------------- column classification
\* lines 915-942; column indexes are 0-based as in the source
RECURSIVE ClassifyFrom(_, _, _)
ClassifyFrom(hdr, i, acc) ==
  IF i >= Len(hdr) THEN acc
  ELSE LET colName == hdr[i + 1] IN
    IF colName = "" THEN ClassifyFrom(hdr, i + 1, acc)
    ELSE IF colName \in DOMAIN dimMappings
    THEN LET m == dimMappings[colName] IN
         ClassifyFrom(hdr, i + 1,
           [acc EXCEPT !.dimCols = Append(@, <<i, colName, m[1], m[2], m[3], m[4]>>),
                       !.timePeriodCol = IF colName = "TIME_PERIOD" THEN i ELSE @])
    ELSE IF colName \in DOMAIN measureMappings
    THEN ClassifyFrom(hdr, i + 1,
           [acc EXCEPT !.measureCols = Append(@, <<i, colName, measureMappings[colName]>>),
                       !.obsValueCol = IF colName = "OBS_VALUE" THEN i ELSE @])
    ELSE IF colName \in DOMAIN attributeMappings
    THEN ClassifyFrom(hdr, i + 1,
           [acc EXCEPT !.attrCols = Append(@, <<i, colName, attributeMappings[colName]>>),
                       !.obsAttributes =
                           IF acc.obsValueCol # -1 /\ i > acc.obsValueCol
                           THEN Append(@, <<i, attributeMappings[colName]>>) ELSE @])
    ELSE ClassifyFrom(hdr, i + 1, acc)

ClassifyColumns(hdr) ==
  ClassifyFrom(hdr, 0, [dimCols |-> <<>>, measureCols |-> <<>>, attrCols |-> <<>>,
                        obsValueCol |-> -1, timePeriodCol |-> -1, obsAttributes |-> <<>>])

\* header.index(name), 0-based; -1 when absent
IndexOf(hdr, name) ==
  IF name \in Range(hdr) THEN Min({j \in 1..Len(hdr) : hdr[j] = name}) - 1 ELSE -1

\* lines 945-953: primary-measure column after the fallback
ResolveObsValueCol(hdr, cols) ==
  IF cols.obsValueCol = -1 /\ cols.measureCols = <<>>
  THEN IF cols.measureCols # <<>> THEN cols.measureCols[1][1]
       ELSE IndexOf(hdr, "OBS_VALUE")
  ELSE cols.obsValueCol

\* ------------------------------------------------------------ cell values
\* str.strip() on the cell values that occur
Strip(c) == IF c = " A" THEN "A" ELSE c

\* str.replace(":", "_") on the names and identifiers that occur
ColonToUnderscore(s) == IF s = "LEI:5" THEN "LEI_5" ELSE s

\* dateTime(value, type=DATEUNION, castException=ValueError) of the host library:
\* a calendar date or date-time literal is accepted, anything else raises
DateUnionKind(v) == CASE v = "2020-01-01" -> "date"
                      [] v = "2020-01-01T00:00:00" -> "dateTime"
                      [] OTHER -> "ValueError"

\* what lines 1139-1143 read off a time literal: its length, the character at
\* index 4, int() of the year and month slices (-1: int() raises ValueError)
TimeLex(v) == CASE v = "2021-07" -> [len |-> 7, c4 |-> "-", year |-> 2021, month |-> 7]
                [] v = "2021-13" -> [len |-> 7, c4 |-> "-", year |-> 2021, month |-> 13]
                [] v = "2020"    -> [len |-> 4, c4 |-> "",  year |-> 2020, month |-> -1]
                [] OTHER         -> [len |-> 10, c4 |-> "-", year |-> -1, month |-> -1]

\* names bound in the module: imports of lines 53-62 and its own definitions
ModuleNames == {"os", "io", "json", "csv", "datetime", "re", "traceback", "etree",
                "qname", "dateTime", "dateunionDate", "isFactDimensionallyValid",
                "XbrlConst", "XmlUtil", "ModelInstanceObject", "ModelDocument"}

\* evaluating a global name: NameError unless the module binds it
NameLookup(name) == IF name \in ModuleNames THEN "none" ELSE "NameError"

\* the bare YYYY-MM branch (lines 1139-1156)
ParseYearMonth(v) ==
  LET x == TimeLex(v) IN
  IF x.len = 7 /\ x.c4 = "-"
  THEN IF x.year < 1 \/ x.month < 1 \/ x.month > 12
       THEN [exc |-> "none", skip |-> TRUE, start |-> None, end |-> None]
       ELSE IF NameLookup("monthrange") # "none"
       THEN [exc |-> NameLookup("monthrange"), skip |-> FALSE,
             start |-> v \o "-01", end |-> None]
       ELSE [exc |-> "none", skip |-> FALSE, start |-> v \o "-01", end |-> v \o "-last"]
  ELSE [exc |-> "none", skip |-> TRUE, start |-> None, end |-> None]

\* ------------------------------------------------- dimensions of one row
\* the loop of lines 1105-1174 from dimension column k on
NoDims == [n \in {} |-> ""]

RECURSIVE DimLoop(_, _, _, _)
DimLoop(dimCols, row, k, acc) ==
  IF k > Len(dimCols) THEN acc
  ELSE LET colIndex == dimCols[k][1]
           sdmxDimName == dimCols[k][2]
           qnameDimConcept == dimCols[k][3]
           isTyped == dimCols[k][6]
       IN
    IF colIndex >= Len(row) \/ Falsy(row[colIndex + 1])
    THEN IF sdmxDimName # "TIME_PERIOD"
         THEN [acc EXCEPT !.skip = TRUE,
                          !.warns = Append(@, "MissingDimValue")]
         ELSE DimLoop(dimCols, row, k + 1, acc)
    ELSE LET dimValue == Strip(row[colIndex + 1]) IN
      IF sdmxDimName = "TIME_PERIOD"
      THEN IF DateUnionKind(dimValue) # "ValueError"
           THEN DimLoop(dimCols, row, k + 1, [acc EXCEPT !.periodInstant = dimValue])
           ELSE LET ym == ParseYearMonth(dimValue)
                    w1 == Append(acc.warns, "InvalidTimePeriod")
                IN IF ym.exc # "none"
                   THEN [acc EXCEPT !.exc = ym.exc, !.warns = w1,
                                    !.periodStart = ym.start]
                   ELSE IF ym.skip
                   THEN [acc EXCEPT !.skip = TRUE,
                                    !.warns = Append(w1, "InvalidTimePeriod")]
                   ELSE DimLoop(dimCols, row, k + 1,
                          [acc EXCEPT !.warns = w1, !.periodStart = ym.start,
                                      !.periodEnd = ym.end])
      ELSE IF isTyped
      THEN DimLoop(dimCols, row, k + 1,
             [acc EXCEPT !.cntxDimValues = (sdmxDimName :> dimValue) @@ @])
      ELSE LET table == IF qnameDimConcept \in DOMAIN memMappings
                        THEN memMappings[qnameDimConcept] ELSE NoDims
           IN IF dimValue \notin DOMAIN table
              THEN [acc EXCEPT !.skip = TRUE,
                               !.warns = Append(@, "MissingMemberMapping")]
              ELSE DimLoop(dimCols, row, k + 1,
                     [acc EXCEPT !.cntxDimValues = (sdmxDimName :> table[dimValue]) @@ @])

ResolveDimensions(dimCols, row) ==
  DimLoop(dimCols, row, 1,
          [cntxDimValues |-> NoDims, skip |-> FALSE, exc |-> "none", warns |-> <<>>,
           periodInstant |-> None, periodStart |-> None, periodEnd |-> None])

\* ------------------------------------------------------ context identifier
\* sorted(dimCols, key=item[2]): stable insertion sort on the dimension QName
RECURSIVE InsertByQName(_, _)
InsertByQName(sorted, item) ==
  IF sorted = <<>> THEN <<item>>
  ELSE IF QnRank(item[3]) < QnRank(Head(sorted)[3])
       THEN <<item>> \o sorted
       ELSE <<Head(sorted)>> \o InsertByQName(Tail(sorted), item)

RECURSIVE SortedDimCols(_)
SortedDimCols(dimCols) ==
  IF dimCols = <<>> THEN <<>>
  ELSE InsertByQName(SortedDimCols(SubSeq(dimCols, 1, Len(dimCols) - 1)),
                     dimCols[Len(dimCols)])

\* cntxIdPattern as the sequence of its placeholders (lines 966-970)
RECURSIVE PatternDims(_)
PatternDims(sortedCols) ==
  IF sortedCols = <<>> THEN <<>>
  ELSE (IF Head(sortedCols)[2] # "TIME_PERIOD"
        THEN <<ColonToUnderscore(Head(sortedCols)[2])>> ELSE <<>>)
       \o PatternDims(Tail(sortedCols))

CntxIdPattern(dimCols) == <<"entity", "period">> \o PatternDims(SortedDimCols(dimCols))

\* number of names the loops of lines 1199 and 1216 unpack each dimCols item into
DimColUnpackNames == 5

\* iterating dimCols while unpacking: ValueError when an item has another length
UnpackDimCols(dimCols) ==
  IF dimCols # <<>> /\ Len(dimCols[1]) # DimColUnpackNames THEN "ValueError" ELSE "none"

\* period.periodId of the period object the host builds
PeriodId(period) == IF period.kind = "instant" THEN period.instant
                    ELSE period.start \o "/" \o period.end

\* cntxIdPattern.format(**cntxIdFormatValues): "_"-joined values
RECURSIVE FormatPattern(_, _)
FormatPattern(pattern, values) ==
  IF pattern = <<>> THEN ""
  ELSE values[Head(pattern)] \o
       (IF Tail(pattern) = <<>> THEN "" ELSE "_" \o FormatPattern(Tail(pattern), values))

\* localName of a member QName / the typed literal, keyed by the placeholder
CntxIdFormatValues(dimCols, cntxDimValues, entityIdentValue, period) ==
  [n \in {"entity", "period"} \cup
         {ColonToUnderscore(d) : d \in DOMAIN cntxDimValues} |->
     CASE n = "entity" -> ColonToUnderscore(entityIdentValue)
       [] n = "period" -> PeriodId(period)
       [] OTHER -> cntxDimValues[CHOOSE d \in DOMAIN cntxDimValues :
                                     ColonToUnderscore(d) = n]]

\* lines 1194-1206
BuildContextId(dimCols, cntxDimValues, entityIdentValue, period) ==
  IF UnpackDimCols(dimCols) # "none"
  THEN [exc |-> UnpackDimCols(dimCols), id |-> None]
  ELSE [exc |-> "none",
        id |-> FormatPattern(CntxIdPattern(dimCols),
                 CntxIdFormatValues(dimCols, cntxDimValues, entityIdentValue, period))]

\* ------------------------------------------------------------- attributes
\* observation attributes from the row's own cells (lines 1265-1271)
RECURSIVE ObsAttrs(_, _, _)
ObsAttrs(obsAttributes, src, acc) ==
  IF obsAttributes = <<>> THEN acc
  ELSE LET colIndex == Head(obsAttributes)[1]
           q == Head(obsAttributes)[2]
       IN ObsAttrs(Tail(obsAttributes), src,
            IF colIndex < Len(src) /\ ~Falsy(src[colIndex + 1])
            THEN (q :> Strip(src[colIndex + 1])) @@ acc ELSE acc)

\* series attributes written after them (lines 1275-1280)
RECURSIVE SeriesAttrs(_, _, _, _)
SeriesAttrs(seriesAttrs, seriesAttrValues, j, acc) ==
  IF j > Len(seriesAttrs) THEN [exc |-> "none", attrs |-> acc]
  ELSE IF seriesAttrs[j] \in DOMAIN attributeMappings
       THEN IF j > Len(seriesAttrValues)
            THEN [exc |-> "IndexError", attrs |-> acc]
            ELSE SeriesAttrs(seriesAttrs, seriesAttrValues, j + 1,
                   IF seriesAttrValues[j] # ""
                   THEN (attributeMappings[seriesAttrs[j]] :> Strip(seriesAttrValues[j])) @@ acc
                   ELSE acc)
       ELSE SeriesAttrs(seriesAttrs, seriesAttrValues, j + 1, acc)

\* factAttrs of one fact (lines 1262-1281)
MergeAttributes(obsAttributes, sourceRowForAttrs, seriesAttrs, seriesAttrValues) ==
  LET obs == ObsAttrs(obsAttributes, sourceRowForAttrs, NoDims) IN
  IF seriesAttrs # <<>> /\ seriesAttrValues # <<>>
  THEN SeriesAttrs(seriesAttrs, seriesAttrValues, 1, obs)
  ELSE [exc |-> "none", attrs |-> obs]

\* --------------------------------------------------- decimals and precision
Digits == {"0", "1", "2", "3", "4", "5", "6", "7", "8", "9"}

\* str.replace(".", "", 1)
RECURSIVE RemoveFirstPoint(_)
RemoveFirstPoint(cs) ==
  IF cs = <<>> THEN <<>>
  ELSE IF Head(cs) = "." THEN Tail(cs) ELSE <<Head(cs)>> \o RemoveFirstPoint(Tail(cs))

\* str.replace(".", "")
RemoveAllPoints(cs) == SelectSeq(cs, LAMBDA c : c # ".")

\* str.isdigit()
IsDigit(cs) == cs # <<>> /\ \A i \in 1..Len(cs) : cs[i] \in Digits

\* str.split(".", 1)[1]
RECURSIVE AfterFirstPoint(_)
AfterFirstPoint(cs) ==
  IF Head(cs) = "." THEN Tail(cs) ELSE AfterFirstPoint(Tail(cs))

INF == -1                                  \* the "INF" sentinel

\* lines 1308-1315, on the characters of obsValue
IsNumericLiteral(cs) == IsDigit(RemoveFirstPoint(cs))

DecimalsOf(cs) ==
  IF IsNumericLiteral(cs)
  THEN [decimals |-> IF "." \in Range(cs) THEN Len(AfterFirstPoint(cs)) ELSE 0,
        precision |-> Len(RemoveAllPoints(cs))]
  ELSE [decimals |-> INF, precision |-> INF]

\* the characters of the observation values that occur in documents
Chars(v) == CASE v = "100" -> <<"1", "0", "0">>
              [] v = "200" -> <<"2", "0", "0">>
              [] v = "12.50" -> <<"1", "2", ".", "5", "0">>
              [] v = "-12.50" -> <<"-", "1", "2", ".", "5", "0">>
              [] OTHER -> <<"x">>

\* ------------------------------------------------------------ duplicates
True == "<True>"                           \* the value kept for non-numeric facts

\* existingFacts built from the facts of the store (lines 992-997)
RECURSIVE ExistingFactsOf(_)
ExistingFactsOf(fs) ==
  IF fs = <<>> THEN NoDims
  ELSE LET fact == fs[Len(fs)] IN
       (<<fact.qname, fact.contextID, fact.unitID, fact.xmlLang>> :>
            (IF fact.isNumeric THEN fact.value ELSE True))
       @@ ExistingFactsOf(SubSeq(fs, 1, Len(fs) - 1))

\* lines 1319-1337: what happens to a row with this key and value
DedupDecision(existingFacts, factKey, obsValue, isNumeric) ==
  IF factKey \in DOMAIN existingFacts
  THEN IF isNumeric
       THEN IF existingFacts[factKey] = obsValue THEN "skipSame" ELSE "skipConflict"
       ELSE "skipSame"
  ELSE "create"

\* ------------------------------------------------------------------ state
VARIABLES
  file,              \* the decoded CSV document: its rows, each a sequence of cells
  measureKind,       \* host concept metadata of the measure: "numeric" or "text"
  contexts,          \* modelXbrl.contexts, in insertion order
  units,             \* ids of modelXbrl.units
  facts,             \* modelXbrl.facts
  pc,                \* "idle", "rows" (in the row loop), "returned", "raised"
  exc,               \* the exception that left _actual_loadFromSdmx, or "none"
  result,            \* the returned value: "modelXbrl", "null", or "none" (no return)
  header,            \* header row found by the first pass
  seriesAttrValues,  \* series-attribute row, <<>> when there is none
  existingFacts,     \* FactKey -> value of the facts known to this load
  rowIdx,            \* rows the csv reader has consumed
  seriesKeys,        \* active series key row, <<>> when there is none
  numFactsLoaded,
  numFactsSkipped,
  warnings,          \* message codes reported by this load, in order
  rowLog,            \* for each row the loop has taken: its index and what became of it
  loadNo,            \* loads started so far
  arg,               \* input handed to one block of the row body (block-level specifications)
  res,               \* what the block made of it
  disk,              \* content of the file at each path
  lastFilePath,      \* module global: the path isSdmxLoadable looked at last
  lastFilePathIsSDMX, \* module global: what isSdmxLoadable made of it
  sdmxStructures,    \* for each fact store, its attribute modelXbrl.sdmxStructures
  xmlStore,          \* for each fact store, what the XML path created in it
  call,              \* the last call of isSdmxLoadable or sdmxLoader and how it ended
  history            \* the calls and file replacements so far, in order

vars == <<file, measureKind, contexts, units, facts, pc, exc, result, header,
          seriesAttrValues, existingFacts, rowIdx, seriesKeys, numFactsLoaded,
          numFactsSkipped, warnings, rowLog, loadNo, arg, res,
         disk, lastFilePath, lastFilePathIsSDMX, sdmxStructures, xmlStore,
         call, history>>

hostVars == <<disk, lastFilePath, lastFilePathIsSDMX, sdmxStructures, xmlStore,
              call, history>>

csvVars == <<file, measureKind, contexts, units, facts, pc, exc, result, header,
             seriesAttrValues, existingFacts, rowIdx, seriesKeys, numFactsLoaded,
             numFactsSkipped, warnings, rowLog, loadNo, arg, res>>

defaultLang == "en"                        \* modelXbrl.modelManager.defaultLang
MeasureIsNumeric == measureKind = "numeric"
MeasureIsXbrlText == measureKind = "text"

Cols == ClassifyColumns(header)
ObsValueCol == ResolveObsValueCol(header, Cols)
ObsUnitCol == IndexOf(header, "OBS_UNIT")

\* lines 979-981
DefaultUnitId == IF unitMappings # <<>> THEN unitMappings[1][2] ELSE "uPure"

\* lines 1037-1042: the entity of the first context of the store
EntityIdentScheme ==
  IF contexts # <<>> THEN contexts[1].scheme ELSE "http://www.xbrl.org/taxonomy/int/id"
EntityIdentValue == IF contexts # <<>> THEN contexts[1].ident ELSE "0"

ContextIds == {contexts[i].id : i \in 1..Len(contexts)}

\* unitMappings lookup of an OBS_UNIT code
UnitCodes == {unitMappings[i][1] : i \in 1..Len(unitMappings)}
UnitIdOf(code) == unitMappings[CHOOSE i \in 1..Len(unitMappings) : unitMappings[i][1] = code][2]

\* ------------------------------------------------------------ one data row
\* The body of the loop of lines 1046-1363 for the row just read, in the order
\* of the source; each operator is the rest of the body from one point on.

\* a row that changes nothing
RowBase == [exc |-> "none", outcome |-> "none", warns |-> <<>>,
            contexts |-> contexts, units |-> units, facts |-> facts,
            existingFacts |-> existingFacts, seriesKeys |-> seriesKeys,
            loaded |-> 0, skipped |-> 0,
            cells |-> <<>>, periodInstant |-> None, periodStart |-> None,
            periodEnd |-> None, contextID |-> None]

\* lines 1318-1354: duplicate check and createFact
EmitFact(w, ctxs, uns, contextID, currentUnitId, factLang, obsValue, attrs, dp) ==
  LET qnameMeasure == measureMappings["OBS_VALUE"]
      lang == IF MeasureIsXbrlText THEN factLang ELSE None
      factKey == <<qnameMeasure, contextID, currentUnitId, lang>>
      decision == DedupDecision(existingFacts, factKey, obsValue, MeasureIsNumeric)
  IN CASE decision = "skipSame" ->
            [RowBase EXCEPT !.outcome = "skipDuplicate", !.skipped = 1, !.warns = w,
                            !.contexts = ctxs, !.units = uns]
       [] decision = "skipConflict" ->
            [RowBase EXCEPT !.outcome = "skipConflict", !.skipped = 1,
                            !.warns = Append(w, "DuplicateFactDifferentValue"),
                            !.contexts = ctxs, !.units = uns]
       [] OTHER ->
            [RowBase EXCEPT !.outcome = "created", !.loaded = 1, !.warns = w,
                            !.contexts = ctxs, !.units = uns,
                            !.facts = Append(facts,
                               [qname |-> qnameMeasure, contextID |-> contextID,
                                unitID |-> currentUnitId, xmlLang |-> lang,
                                value |-> obsValue, isNumeric |-> MeasureIsNumeric,
                                attrs |-> attrs,
                                decimals |-> IF MeasureIsNumeric THEN dp.decimals ELSE INF,
                                precision |-> IF MeasureIsNumeric THEN dp.precision ELSE INF]),
                            !.existingFacts = (factKey :> obsValue) @@ existingFacts]

\* lines 1293-1315: language, decimals and precision
WithAttributes(w, ctxs, uns, contextID, currentUnitId, obsValue, attrs, src) ==
  LET obsLangCol == IndexOf(header, "OBS_LANG")
      hasLangCell == obsLangCol # -1 /\ obsLangCol < Len(src) /\ ~Falsy(src[obsLangCol + 1])
      sdmxLang == IF hasLangCell THEN Strip(src[obsLangCol + 1]) ELSE ""
      known == hasLangCell /\ sdmxLang \in DOMAIN languageMappings
  IN EmitFact(IF hasLangCell /\ ~known THEN Append(w, "UnknownLang") ELSE w,
              ctxs, uns, contextID, currentUnitId,
              IF known THEN languageMappings[sdmxLang] ELSE defaultLang,
              obsValue, attrs, DecimalsOf(Chars(obsValue)))

\* lines 1262-1281: attributes of the fact
WithUnit(w, ctxs, uns, contextID, currentUnitId, obsValue, src, merged) ==
  IF merged.exc # "none"
  THEN [RowBase EXCEPT !.exc = merged.exc, !.outcome = "raised", !.warns = w,
                       !.contexts = ctxs, !.units = uns]
  ELSE WithAttributes(w, ctxs, uns, contextID, currentUnitId, obsValue, merged.attrs, src)

\* lines 1229-1259: observation value and unit
WithContext(w, ctxs, contextID, row, src, obsValueCol, obsUnitCol, obsAttributes) ==
  IF obsValueCol >= Len(row) \/ Falsy(row[obsValueCol + 1])
  THEN [RowBase EXCEPT !.outcome = "skipObsValue", !.skipped = 1, !.contexts = ctxs,
                       !.warns = Append(w, "MissingObsValue")]
  ELSE
  LET hasUnitCell == obsUnitCol # -1 /\ obsUnitCol < Len(row) /\ ~Falsy(row[obsUnitCol + 1])
      sdmxUnit == IF hasUnitCell THEN Strip(row[obsUnitCol + 1]) ELSE ""
      known == hasUnitCell /\ sdmxUnit \in UnitCodes
      currentUnitId == IF known THEN UnitIdOf(sdmxUnit) ELSE DefaultUnitId
  IN WithUnit(IF hasUnitCell /\ ~known THEN Append(w, "UnknownUnit") ELSE w,
              ctxs, units \cup {currentUnitId}, contextID, currentUnitId,
              Strip(row[obsValueCol + 1]), src,
              MergeAttributes(obsAttributes, src,
                              IF seriesAttrValues # <<>> THEN header ELSE <<>>,
                              seriesAttrValues))

\* lines 1194-1227: context identifier, context lookup or creation
LookupContext(d, period, cid, row, src, cols) ==
  IF cid.exc # "none"
  THEN [RowBase EXCEPT !.exc = cid.exc, !.outcome = "raised", !.warns = d.warns]
  ELSE IF cid.id \in ContextIds
  THEN WithContext(d.warns, contexts, cid.id, row, src,
                   ObsValueCol, ObsUnitCol, cols.obsAttributes)
  ELSE IF UnpackDimCols(cols.dimCols) # "none"
  THEN [RowBase EXCEPT !.exc = UnpackDimCols(cols.dimCols), !.outcome = "raised",
                       !.warns = d.warns,
                       !.contexts = Append(contexts,
                           [id |-> cid.id, scheme |-> EntityIdentScheme,
                            ident |-> EntityIdentValue, period |-> period,
                            dims |-> NoDims])]
  ELSE WithContext(d.warns,
                   Append(contexts,
                          [id |-> cid.id, scheme |-> EntityIdentScheme,
                           ident |-> EntityIdentValue, period |-> period,
                           dims |-> d.cntxDimValues]),
                   cid.id, row, src, ObsValueCol, ObsUnitCol, cols.obsAttributes)

\* createContextPeriod of the host: an instant, or a start and an end
PeriodOf(d) ==
  IF d.periodInstant # None
  THEN [kind |-> "instant", instant |-> d.periodInstant, start |-> None, end |-> None]
  ELSE [kind |-> "duration", instant |-> None, start |-> d.periodStart,
        end |-> d.periodEnd]

WithPeriod(d, period, cid, row, src, cols) ==
  [LookupContext(d, period, cid, row, src, cols) EXCEPT !.contextID = cid.id]

\* lines 1176-1192: outcome of the dimension loop, period
CheckDimensions(d, row, src, cols) ==
  IF d.exc # "none"
  THEN [RowBase EXCEPT !.exc = d.exc, !.outcome = "raised", !.warns = d.warns]
  ELSE IF d.skip
  THEN [RowBase EXCEPT !.outcome = "skipDimension", !.warns = d.warns, !.skipped = 1]
  ELSE IF d.periodInstant = None /\ ~(d.periodStart # None /\ d.periodEnd # None)
  THEN [RowBase EXCEPT !.outcome = "skipPeriod", !.skipped = 1,
                       !.warns = Append(d.warns, "MissingPeriod")]
  ELSE WithPeriod(d, PeriodOf(d),
                  BuildContextId(cols.dimCols, d.cntxDimValues, EntityIdentValue,
                                 PeriodOf(d)),
                  row, src, cols)

\* the row's values as the loop body holds them when it leaves the row
WithDimensions(d, row, src, cols) ==
  [CheckDimensions(d, row, src, cols) EXCEPT
      !.cells = row, !.periodInstant = d.periodInstant,
      !.periodStart = d.periodStart, !.periodEnd = d.periodEnd]

\* lines 1092-1096: the key row padded with None stands for the row
PadSeriesKeys(keys, n) == keys \o [i \in 1..(n - Len(keys)) |-> None]

\* lines 1047-1105
RowBody(rawRow) ==
  IF rawRow = <<>> \/ \A i \in 1..Len(rawRow) : rawRow[i] = ""
  THEN [RowBase EXCEPT !.outcome = "empty"]
  ELSE IF Len(rawRow) < Len(header)
  THEN [RowBase EXCEPT !.outcome = "seriesKeys", !.seriesKeys = rawRow]
  ELSE IF seriesKeys # <<>>
  THEN WithDimensions(ResolveDimensions(Cols.dimCols, PadSeriesKeys(seriesKeys, Len(header))),
                      PadSeriesKeys(seriesKeys, Len(header)), rawRow, Cols)
  ELSE WithDimensions(ResolveDimensions(Cols.dimCols, rawRow), rawRow, rawRow, Cols)

\* ------------------------------------------------------------ documents
\* header rows of the documents loaded
Headers == { <<"FREQ", "TIME_PERIOD", "OBS_VALUE", "OBS_STATUS">>,
             <<"TIME_PERIOD", "FREQ", "OBS_VALUE", "OBS_STATUS">>,
             <<"REF_AREA", "FREQ", "TIME_PERIOD", "OBS_VALUE">> }

Cell(f, a, t, v, s, n) ==
  [FREQ |-> f, REF_AREA |-> a, TIME_PERIOD |-> t, OBS_VALUE |-> v, OBS_STATUS |-> s,
   cells |-> n]

\* the rows of the documents, by column name; cells: 0 for a full row, else its length
Records ==
  { Cell("A",  "DE", "2020-01-01", "100", "E", 0),
    Cell(" A", "DE", "2020-01-01", "200", "E", 0),
    Cell("",   "DE", "2020-01-01", "100", "",  0),
    Cell("Z",  "DE", "2020-01-01", "100", "",  0),
    Cell("A",  "DE", "2021-07",    "100", "",  0),
    Cell("",   "DE", "2021-07",    "100", "",  0),
    Cell("A",  "DE", "2020",       "100", "",  0),
    Cell("A",  "DE", "2021-13",    "100", "",  0),
    Cell("A",  "DE", "2020-01-01", "100", "",  2),
    Cell("",   "",   "",           "",    "",  0),
    Cell("",   "",   "",           "",    "E", 0) }

RowOf(hdr, rec) ==
  [i \in 1..(IF rec.cells = 0 THEN Len(hdr) ELSE rec.cells) |-> rec[hdr[i]]]

SeqsUpTo(S, n) == UNION {[1..k -> S] : k \in 0..n}

\* documents that open with a header line, and documents without one: the
\* empty document and the single data line
Documents ==
  {<<hdr>> \o [i \in 1..Len(rs) |-> RowOf(hdr, rs[i])] :
       hdr \in Headers, rs \in SeqsUpTo(Records, MaxRows)}
  \cup {<<RowOf(hdr, rec)>> : hdr \in Headers, rec \in Records}
  \cup {<<>>}

\* the store the host hands over: empty, or one context holding one fact
HostContext == [id |-> "LEI_5_2020-01-01_memA", scheme |-> "http://lei", ident |-> "LEI:5",
                period |-> [kind |-> "instant", instant |-> "2020-01-01",
                            start |-> None, end |-> None],
                dims |-> ("FREQ" :> "memA")]

HostFact(kind) ==
  [qname |-> "Val", contextID |-> HostContext.id, unitID |-> "uEUR",
   xmlLang |-> IF kind = "text" THEN "en" ELSE None, value |-> "100",
   isNumeric |-> kind = "numeric", attrs |-> NoDims, decimals |-> INF, precision |-> INF]

HostStores ==
  { [kind |-> "numeric", contexts |-> <<>>, units |-> {}, facts |-> <<>>],
    [kind |-> "numeric", contexts |-> <<HostContext>>, units |-> {"uEUR"},
     facts |-> <<HostFact("numeric")>>],
    [kind |-> "text", contexts |-> <<HostContext>>, units |-> {"uEUR"},
     facts |-> <<HostFact("text")>>] }

\* ------------------------------------- files, fact stores and XML messages
\* a path, split as os.path.splitext splits it
Path(stem, ext) == [stem |-> stem, ext |-> ext]

NoPath == Path(None, None)

Paths == {Path("a", ".xml"), Path("b", ".XML"), Path("c", ".csv")}

\* str.lower on the extensions of Paths
Lower(ext) == IF ext = ".XML" THEN ".xml" ELSE ext

Stores == {"m1", "m2"}

SdmxV30 == "http://www.sdmx.org/resources/sdmxml/schemas/v3_0/message"
SdmxV21 == "http://www.sdmx.org/resources/sdmxml/schemas/v2_1/message"
XbrlInstance == "http://www.xbrl.org/2003/instance"

\* startswith of lines 89-90 and 279-280 on the namespaces above
InSdmxNamespace(namespace) == namespace \in {SdmxV30, SdmxV21}

\* a str:DataStructure element: its identification, the ids of its
\* str:Dimension children and the id of its str:TimeDimension, None without one
DataStructure(agency, id, version, urn, dims, timeDim) ==
  [agencyID |-> agency, id |-> id, version |-> version, urn |-> urn,
   dimensions |-> dims, time_dimension |-> timeDim]

ExrUrn == "urn:sdmx:org.sdmx.infomodel.datastructure.DataStructure=ECB:EXR(1.0)"

\* the reference of the first m:Structure of a header: a cmn:URN, a cmn:Ref, or none
UrnRef(urn) == [via |-> "URN", urn |-> urn, agencyID |-> None, id |-> None, version |-> None]
TripleRef(agency, id, version) ==
  [via |-> "Ref", urn |-> None, agencyID |-> agency, id |-> id, version |-> version]
NoRef == [via |-> "none", urn |-> None, agencyID |-> None, id |-> None, version |-> None]

\* a Series element: its attributes, "" for an attribute it does not carry
Series(freq, currency) == [FREQ |-> freq, CURRENCY |-> currency]

\* a file content: text without "<" (CSV), or an XML document with the
\* namespace and local name of its root, its m:Header, the str:DataStructure
\* elements of its str:Structures, the reference of its header and the
\* unqualified Series elements of its m:DataSet
Content(text, namespace, localname, structures, ref, series) ==
  [text |-> text, namespace |-> namespace, localname |-> localname, hasHeader |-> TRUE,
   structures |-> structures, ref |-> ref, series |-> series]

CsvDoc == Content("csv", None, None, <<>>, NoRef, <<>>)
OtherXml == Content("xml", XbrlInstance, "xbrl", <<>>, NoRef, <<>>)
StructA1 ==
  Content("xml", SdmxV30, "Structure",
          <<DataStructure("ECB", "EXR", "1.0", None, <<"FREQ">>, "TIME_PERIOD")>>, NoRef, <<>>)
StructA2 ==
  Content("xml", SdmxV30, "Structure",
          <<DataStructure("ECB", "EXR", "1.0", None, <<"FREQ", "CURRENCY">>, None)>>,
          NoRef, <<>>)
StructU ==
  Content("xml", SdmxV21, "Structure",
          <<DataStructure("ECB", "EXR", "1.0", ExrUrn, <<"FREQ">>, "TIME_PERIOD")>>,
          NoRef, <<>>)
SSRefTriple ==
  Content("xml", SdmxV30, "StructureSpecificData", <<>>, TripleRef("ECB", "EXR", "1.0"),
          <<Series("A", "USD"), Series("M", "USD"), Series("A", "USD")>>)
SSRefUrn ==
  Content("xml", SdmxV21, "StructureSpecificData", <<>>, UrnRef(ExrUrn),
          <<Series("A", "USD")>>)
GenRefTriple ==
  Content("xml", SdmxV30, "GenericData", <<>>, TripleRef("ECB", "EXR", "1.0"), <<>>)

XmlDocs == {OtherXml, StructA1, StructA2, StructU, SSRefTriple, SSRefUrn, GenRefTriple}

\* contents a file is replaced with between two calls
ReplaceDocs == {OtherXml, StructA2}

\* modelXbrl without the attribute sdmxStructures, and the dictionary of lines 379-383
NoStructures == [present |-> FALSE, concept_schemes |-> {}, codelists |-> {}, dsds |-> {}]
EmptyStructures == [present |-> TRUE, concept_schemes |-> {}, codelists |-> {}, dsds |-> {}]

NoDsd == [key |-> <<>>, dsd |-> DataStructure(None, None, None, None, <<>>, None)]

\* what the XML path has added to a fact store
NoXml == [units |-> 0, contexts |-> <<>>, currentSdmxActiveDsd |-> NoDsd]

NoCall == [op |-> "none", store |-> None, path |-> NoPath, content |-> CsvDoc,
           result |-> "none", errors |-> <<>>, proceeded |-> FALSE,
           reference |-> NoRef, retrieved |-> NoDsd]

HostIdle ==
  /\ disk = [p \in Paths |-> CsvDoc]
  /\ lastFilePath = NoPath
  /\ lastFilePathIsSDMX = FALSE
  /\ sdmxStructures = [m \in Stores |-> NoStructures]
  /\ xmlStore = [m \in Stores |-> NoXml]
  /\ call = NoCall
  /\ history = <<>>

\* ---------------------------------------------------------------- actions
Init ==
  /\ file \in Documents
  /\ \E h \in HostStores :
       /\ measureKind = h.kind
       /\ contexts = h.contexts
       /\ units = h.units
       /\ facts = h.facts
  /\ pc = "idle"
  /\ exc = "none"
  /\ result = "none"
  /\ header = <<>>
  /\ seriesAttrValues = <<>>
  /\ existingFacts = NoDims
  /\ rowIdx = 0
  /\ seriesKeys = <<>>
  /\ numFactsLoaded = 0
  /\ numFactsSkipped = 0
  /\ warnings = <<>>
  /\ rowLog = <<>>
  /\ loadNo = 0
  /\ arg = "none"
  /\ res = "none"
  /\ HostIdle

\* line 163: the host's createUnit adds a unit element on every call and names
\* it by the number of units the store then holds
PureUnitId(n) == "u-0" \o <<"1", "2", "3", "4", "5", "6", "7", "8", "9">>[n]

\* _actual_loadFromSdmx up to the row loop (lines 149-1045) on a CSV document
StartLoad ==
  /\ pc \in {"idle", "returned", "raised"}
  /\ loadNo < MaxLoads
  /\ loadNo' = loadNo + 1
  /\ units' = units \cup {PureUnitId(Cardinality(units) + 1)}
  /\ UNCHANGED <<file, measureKind, contexts, facts, arg, res>>
  /\ seriesKeys' = <<>>
  /\ numFactsLoaded' = 0
  /\ numFactsSkipped' = 0
  /\ rowLog' = <<>>
  /\ LET h == DetectHeader(file)
         cols == ClassifyColumns(h.header)
         skipRows == h.headerLineNum + 1 + (IF h.seriesAttrValues # <<>> THEN 1 ELSE 0)
         stop(code, rv, e, w) ==
           /\ pc' = code /\ result' = rv /\ exc' = e /\ warnings' = w
           /\ header' = h.header /\ seriesAttrValues' = h.seriesAttrValues
           /\ existingFacts' = NoDims /\ rowIdx' = 0
     IN IF h.exc # "none" THEN stop("raised", "none", h.exc, <<>>)
        ELSE IF h.missing \/ ~h.found THEN stop("returned", "null", "none", <<>>)
        ELSE IF ResolveObsValueCol(h.header, cols) = -1
        THEN stop("returned", "null", "none", <<>>)
        ELSE IF skipRows > Len(file)
        THEN stop("returned", "null", "none", <<"NoDataRows">>)
        ELSE /\ pc' = "rows" /\ result' = "none" /\ exc' = "none" /\ warnings' = <<>>
             /\ header' = h.header /\ seriesAttrValues' = h.seriesAttrValues
             /\ existingFacts' = ExistingFactsOf(facts)
             /\ rowIdx' = skipRows
  /\ UNCHANGED hostVars

\* one iteration of the row loop (lines 1046-1363)
ProcessRow ==
  /\ pc = "rows"
  /\ rowIdx < Len(file)
  /\ LET r == RowBody(file[rowIdx + 1]) IN
       /\ rowIdx' = rowIdx + 1
       /\ contexts' = r.contexts
       /\ units' = r.units
       /\ facts' = r.facts
       /\ existingFacts' = r.existingFacts
       /\ seriesKeys' = r.seriesKeys
       /\ numFactsLoaded' = numFactsLoaded + r.loaded
       /\ numFactsSkipped' = numFactsSkipped + r.skipped
       /\ warnings' = warnings \o r.warns
       /\ rowLog' = Append(rowLog,
            [row |-> rowIdx + 1, outcome |-> r.outcome, exc |-> r.exc,
             warns |-> r.warns, skipped |-> r.skipped, cells |-> r.cells,
             periodInstant |-> r.periodInstant, periodStart |-> r.periodStart,
             periodEnd |-> r.periodEnd, contextID |-> r.contextID])
       /\ exc' = r.exc
       /\ pc' = IF r.exc # "none" THEN "raised" ELSE "rows"
  /\ UNCHANGED <<file, measureKind, result, header, seriesAttrValues, loadNo, arg, res>>
  /\ UNCHANGED hostVars

\* the completion summary and the return (lines 1366-1382)
FinishLoad ==
  /\ pc = "rows"
  /\ rowIdx >= Len(file)
  /\ IF numFactsLoaded > 0
     THEN IF NameLookup("info") # "none"
          THEN /\ exc' = NameLookup("info") /\ pc' = "raised"
               /\ UNCHANGED <<result, warnings>>
          ELSE /\ warnings' = Append(warnings, "Complete")
               /\ result' = "modelXbrl" /\ pc' = "returned" /\ UNCHANGED exc
     ELSE /\ warnings' = Append(warnings, "NoFactsLoaded")
          /\ result' = "modelXbrl" /\ pc' = "returned" /\ UNCHANGED exc
  /\ UNCHANGED <<file, measureKind, contexts, units, facts, header, seriesAttrValues,
                 existingFacts, rowIdx, seriesKeys, numFactsLoaded, numFactsSkipped,
                 rowLog, loadNo, arg, res>>
  /\ UNCHANGED hostVars

Next == StartLoad \/ ProcessRow \/ FinishLoad

Spec == Init /\ [][Next]_vars

\* ------------------------------------------- blocks of the row body, alone
\* The remaining specifications apply one block of the row body to inputs drawn
\* from small sets; pc goes from "idle" to "applied".
NoLoad ==
  /\ file = <<>> /\ header = <<>> /\ seriesAttrValues = <<>>
  /\ exc = "none" /\ result = "none" /\ rowIdx = 0 /\ seriesKeys = <<>>
  /\ numFactsLoaded = 0 /\ numFactsSkipped = 0 /\ warnings = <<>>
  /\ rowLog = <<>> /\ loadNo = 0 /\ pc = "idle" /\ res = "none"

EmptyStore ==
  /\ measureKind = "numeric" /\ contexts = <<>> /\ units = {} /\ facts = <<>>
  /\ existingFacts = NoDims

\* ---- decimals and precision of an observation value (lines 1306-1315)
ValueAlphabet == {"-", "+", "0", "1", "2", "5", "7", ".", "x"}

ObsValues == UNION {[1..n -> ValueAlphabet] : n \in 1..MaxValLen}

InitDecimals == NoLoad /\ EmptyStore /\ HostIdle /\ arg \in ObsValues

ApplyDecimals ==
  /\ pc = "idle"
  /\ pc' = "applied"
  /\ res' = DecimalsOf(arg)
  /\ UNCHANGED <<file, measureKind, contexts, units, facts, exc, result, header,
                 seriesAttrValues, existingFacts, rowIdx, seriesKeys, numFactsLoaded,
                 numFactsSkipped, warnings, rowLog, loadNo, arg>>
  /\ UNCHANGED hostVars

SpecDecimals == InitDecimals /\ [][ApplyDecimals]_vars

\* ---- attributes of one fact (lines 1262-1281)
AttrHeaders == { <<"OBS_VALUE", "OBS_STATUS", "CONF_STATUS">>,
                 <<"OBS_STATUS", "OBS_VALUE", "CONF_STATUS">>,
                 <<"FREQ", "OBS_VALUE", "CONF_STATUS", "OBS_STATUS">> }

AttrValues == {"", "E", "F"}

\* rows under a header: a value in OBS_VALUE and FREQ, any cell in the attribute
\* columns; the series-attribute row has cells in attribute columns only
ObsRowsUnder(hdr) ==
  {r \in [1..Len(hdr) -> AttrValues \cup {"A", "100"}] :
      \A j \in 1..Len(hdr) :
          CASE hdr[j] = "OBS_VALUE" -> r[j] = "100"
            [] hdr[j] = "FREQ" -> r[j] = "A"
            [] OTHER -> r[j] \in AttrValues}

SeriesAttrRowsUnder(hdr) ==
  {r \in [1..Len(hdr) -> AttrValues] :
      /\ \A j \in 1..Len(hdr) : hdr[j] \notin DOMAIN attributeMappings => r[j] = ""
      /\ \E j \in 1..Len(hdr) : r[j] # ""}

InitAttributes ==
  /\ NoLoad /\ EmptyStore /\ HostIdle
  /\ \E hdr \in AttrHeaders :
       arg \in [header : {hdr}, row : ObsRowsUnder(hdr),
                seriesAttrValues : SeriesAttrRowsUnder(hdr) \cup {<<>>}]

ApplyAttributes ==
  /\ pc = "idle"
  /\ pc' = "applied"
  /\ res' = MergeAttributes(ClassifyColumns(arg.header).obsAttributes, arg.row,
                            IF arg.seriesAttrValues # <<>> THEN arg.header ELSE <<>>,
                            arg.seriesAttrValues)
  /\ UNCHANGED <<file, measureKind, contexts, units, facts, exc, result, header,
                 seriesAttrValues, existingFacts, rowIdx, seriesKeys, numFactsLoaded,
                 numFactsSkipped, warnings, rowLog, loadNo, arg>>
  /\ UNCHANGED hostVars

SpecAttributes == InitAttributes /\ [][ApplyAttributes]_vars

\* ---- duplicate check and createFact (lines 988-997, 1318-1354)
HostValues == {"100", "200"}

HostPopulations(kind) ==
  {<<>>} \cup {<<[HostFact(kind) EXCEPT !.value = v]>> : v \in HostValues}

InitDedup ==
  /\ NoLoad /\ HostIdle
  /\ measureKind \in {"numeric", "text"}
  /\ facts \in HostPopulations(measureKind)
  /\ contexts = <<HostContext>>
  /\ units = {"uEUR", "pure"}
  /\ existingFacts = ExistingFactsOf(facts)
  /\ arg \in [contextID : {HostContext.id, "LEI_5_2020-01-01_memM"},
               unitId : {"uEUR", "pure"}, factLang : {"en", "fr"},
               obsValue : {"100", "200", "12.50"}]

ApplyDedup ==
  /\ pc = "idle"
  /\ pc' = "applied"
  /\ LET r == EmitFact(<<>>, contexts, units, arg.contextID, arg.unitId, arg.factLang,
                       arg.obsValue, NoDims, DecimalsOf(Chars(arg.obsValue)))
     IN /\ facts' = r.facts
        /\ existingFacts' = r.existingFacts
        /\ numFactsLoaded' = numFactsLoaded + r.loaded
        /\ numFactsSkipped' = numFactsSkipped + r.skipped
        /\ warnings' = warnings \o r.warns
        /\ res' = r.outcome
  /\ UNCHANGED <<file, measureKind, contexts, units, exc, result, header,
                 seriesAttrValues, rowIdx, seriesKeys, rowLog, loadNo, arg>>
  /\ UNCHANGED hostVars

SpecDedup == InitDedup /\ [][ApplyDedup]_vars

\* ---- observation value, unit, language and fact of a row whose context is
\* resolved (lines 1229-1354)
UnitLangHeaders == { <<"FREQ", "TIME_PERIOD", "OBS_VALUE", "OBS_UNIT", "OBS_LANG">>,
                     <<"OBS_UNIT", "OBS_LANG", "FREQ", "TIME_PERIOD", "OBS_VALUE">> }

UnitCells == {"", "EUR", "USD"}

LangCells == {"", "FR", "ZZ"}

UnitLangRowsUnder(hdr) ==
  {r \in [1..Len(hdr) -> UnitCells \cup LangCells \cup {"A", "2020-01-01", "100", "200"}] :
      \A j \in 1..Len(hdr) :
          CASE hdr[j] = "FREQ" -> r[j] = "A"
            [] hdr[j] = "TIME_PERIOD" -> r[j] = "2020-01-01"
            [] hdr[j] = "OBS_VALUE" -> r[j] \in {"100", "200"}
            [] hdr[j] = "OBS_UNIT" -> r[j] \in UnitCells
            [] OTHER -> r[j] \in LangCells}

InitUnitLang ==
  /\ file = <<>> /\ seriesAttrValues = <<>>
  /\ exc = "none" /\ result = "none" /\ rowIdx = 0 /\ seriesKeys = <<>>
  /\ numFactsLoaded = 0 /\ numFactsSkipped = 0 /\ warnings = <<>>
  /\ rowLog = <<>> /\ loadNo = 0 /\ pc = "idle" /\ res = "none"
  /\ HostIdle
  /\ header \in UnitLangHeaders
  /\ arg \in UnitLangRowsUnder(header)
  /\ measureKind \in {"numeric", "text"}
  /\ facts \in HostPopulations(measureKind)
  /\ contexts = <<HostContext>>
  /\ units = {"uEUR"}
  /\ existingFacts = ExistingFactsOf(facts)

ApplyUnitLang ==
  /\ pc = "idle"
  /\ pc' = "applied"
  /\ LET r == WithContext(<<>>, contexts, HostContext.id, arg, arg,
                          ObsValueCol, ObsUnitCol, Cols.obsAttributes)
     IN /\ contexts' = r.contexts
        /\ units' = r.units
        /\ facts' = r.facts
        /\ existingFacts' = r.existingFacts
        /\ numFactsLoaded' = numFactsLoaded + r.loaded
        /\ numFactsSkipped' = numFactsSkipped + r.skipped
        /\ warnings' = warnings \o r.warns
        /\ exc' = r.exc
        /\ res' = r.outcome
  /\ UNCHANGED <<file, measureKind, result, header, seriesAttrValues, rowIdx,
                 seriesKeys, rowLog, loadNo, arg>>
  /\ UNCHANGED hostVars

SpecUnitLang == InitUnitLang /\ [][ApplyUnitLang]_vars

\* ------------------------------------------- the sniffer and the XML path
\* isSdmxLoadable (lines 74-123) on a path and the content of its file: what it
\* returns, which is also what it leaves in lastFilePathIsSDMX, and the errors
\* it reports
isSdmxLoadable(filepath, content) ==
  IF Lower(filepath.ext) # ".xml" THEN [result |-> FALSE, errors |-> <<>>]
  ELSE IF content.text # "xml"
  THEN [result |-> FALSE, errors |-> <<"isSdmxLoadable:lxmlError">>]
  ELSE [result |-> InSdmxNamespace(content.namespace), errors |-> <<>>]

\* lines 425-429, 564: the key a DataStructure is stored under
DsdKey(d) ==
  IF d.urn \notin {None, ""} THEN <<d.urn>> ELSE <<d.agencyID, d.id, d.version>>

\* lines 425-565: the DataStructure elements of a message, stored one by one
RECURSIVE StoreDsds(_, _, _)
StoreDsds(dsds, structures, i) ==
  IF i > Len(structures) THEN dsds
  ELSE LET d == structures[i]
           stored == {e \in dsds : e.key # DsdKey(d)} \cup {[key |-> DsdKey(d), dsd |-> d]}
       IN StoreDsds(stored, structures, i + 1)

\* lines 574-593: the key the header of a data message refers to, <<>> for none
ActiveDsdKey(ref) ==
  IF ref.via = "URN" THEN (IF ref.urn \notin {None, ""} THEN <<ref.urn>> ELSE <<>>)
  ELSE IF ref.via = "Ref" THEN <<ref.agencyID, ref.id, ref.version>>
  ELSE <<>>

\* lines 595-598: dict.get on the dsds of the store
LookupDsd(structures, key) ==
  IF \E e \in structures.dsds : e.key = key
  THEN CHOOSE e \in structures.dsds : e.key = key
  ELSE NoDsd

\* lines 663-676: the dimension values of a Series that form its context key
SeriesKey(dsd, item) ==
  {<<dsd.dimensions[k], item[dsd.dimensions[k]]>> :
      k \in {j \in 1..Len(dsd.dimensions) : item[dsd.dimensions[j]] # ""}}

XmlContextId(n) == "c-" \o <<"1", "2", "3", "4", "5", "6", "7", "8", "9">>[n]

\* lines 641-709: the Series of the data set in document order; created holds
\* the keys of created_contexts, contexts the contexts of the store
RECURSIVE WalkSeries(_, _, _, _, _)
WalkSeries(dsd, series, i, created, ctxs) ==
  IF i > Len(series) THEN ctxs
  ELSE LET key == SeriesKey(dsd, series[i]) IN
       IF key \in created THEN WalkSeries(dsd, series, i + 1, created, ctxs)
       ELSE WalkSeries(dsd, series, i + 1, created \cup {key},
                       Append(ctxs, [id |-> XmlContextId(Cardinality(created) + 1),
                                     scheme |-> "http://www.example.com/sdmx",
                                     ident |-> "DEFAULT_ENTITY",
                                     instant |-> "2023-01-01T00:00:00",
                                     dims |-> key]))

\* what the XML branch leaves behind: missing and the errors reported so far,
\* the registry and the contexts of the store, the reference and what it found
XmlBase(structures, xs) ==
  [missing |-> FALSE, errors |-> <<>>, structures |-> structures,
   contexts |-> xs.contexts, currentSdmxActiveDsd |-> xs.currentSdmxActiveDsd,
   reference |-> NoRef, retrieved |-> NoDsd]

XmlFail(w, code) ==
  [w EXCEPT !.missing = TRUE, !.errors = Append(@, code)]

\* lines 364-567: a Structure message
StructureMessage(w, content) ==
  LET reg == IF w.structures.present THEN w.structures ELSE EmptyStructures
  IN [w EXCEPT !.structures = [reg EXCEPT !.dsds = StoreDsds(@, content.structures, 1)],
               !.missing = TRUE]

\* lines 619-715: the payload of a data message, once the lookup is done
DataPayload(w, content) ==
  IF w.retrieved = NoDsd THEN [w EXCEPT !.missing = TRUE]
  ELSE IF content.series # <<>> /\ w.retrieved.dsd.time_dimension = None
  THEN XmlFail(w, "arelle:loadFromSdmxXmlError")
  ELSE [w EXCEPT !.contexts = WalkSeries(w.retrieved.dsd, content.series, 1, {}, @),
                 !.missing = TRUE]

\* lines 569-616: a data message, from its header reference to the lookup
DataMessage(w, content) ==
  LET key == ActiveDsdKey(content.ref)
      found == IF key # <<>> /\ w.structures.present
               THEN LookupDsd(w.structures, key) ELSE NoDsd
      strict == content.localname = "StructureSpecificData"
      looked == [w EXCEPT !.reference = content.ref,
                          !.retrieved = found,
                          !.currentSdmxActiveDsd = IF found # NoDsd THEN found ELSE @,
                          !.errors = IF found = NoDsd /\ strict
                                     THEN Append(@, "arelle:loadFromSdmxMissingDSDForData")
                                     ELSE @]
  IN DataPayload(looked, content)

MessageTypes == {"Structure", "GenericData", "StructureSpecificData", "RegistryInterface",
                 "Error", "GenericMetadata", "StructureSpecificMetadata"}

\* lines 222-734: the XML branch of _actual_loadFromSdmx and the return that follows it
XmlBranch(structures, xs, content) ==
  LET w == XmlBase(structures, xs)
      r == IF ~InSdmxNamespace(content.namespace)
           THEN XmlFail(w, "arelle:loadFromSdmxXmlError")
           ELSE IF content.localname \notin MessageTypes
           THEN XmlFail(w, "arelle:loadFromSdmxXmlError")
           ELSE IF ~content.hasHeader THEN XmlFail(w, "arelle:loadFromSdmxXmlError")
           ELSE IF content.localname = "Structure" THEN StructureMessage(w, content)
           ELSE IF content.localname \in {"GenericData", "StructureSpecificData"}
           THEN DataMessage(w, content)
           ELSE [w EXCEPT !.missing = TRUE]
  IN IF r.missing
     THEN [r EXCEPT !.errors = Append(@, "arelle:loadFromSdmxUnsupportedSdmxType")]
     ELSE r

\* ---- the host calling the sniffer and the loader on files that may change
MaxSteps == 3

XmlPaths == {p \in Paths : Lower(p.ext) = ".xml"}

InitHost ==
  /\ NoLoad /\ EmptyStore /\ arg = "none"
  /\ disk \in {d \in [Paths -> XmlDocs \cup {CsvDoc}] :
                  \A p \in Paths : (d[p] = CsvDoc) <=> (p \notin XmlPaths)}
  /\ lastFilePath = NoPath
  /\ lastFilePathIsSDMX = FALSE
  /\ sdmxStructures = [m \in Stores |-> NoStructures]
  /\ xmlStore = [m \in Stores |-> NoXml]
  /\ call = NoCall
  /\ history = <<>>

Step(op, filepath) == [op |-> op, path |-> filepath]

\* a loader that trusts the cached classification whatever the path
PathNeverChanged(filepath, last) == FALSE

\* line 134: the loader runs the sniffer itself when the path is not the cached one
PathChanged(filepath, last) == filepath # last

\* the host asks isSdmxLoadable about a path
Sniff(filepath) ==
  /\ Len(history) < MaxSteps
  /\ history' = Append(history, Step("isSdmxLoadable", filepath))
  /\ LET r == isSdmxLoadable(filepath, disk[filepath]) IN
       /\ lastFilePath' = filepath
       /\ lastFilePathIsSDMX' = r.result
       /\ call' = [op |-> "isSdmxLoadable", store |-> None, path |-> filepath,
                   content |-> disk[filepath],
                   result |-> IF r.result THEN "True" ELSE "False",
                   errors |-> r.errors, proceeded |-> FALSE,
                   reference |-> NoRef, retrieved |-> NoDsd]
  /\ UNCHANGED <<disk, sdmxStructures, xmlStore>>
  /\ UNCHANGED csvVars

\* the host calls sdmxLoader (lines 125-147) for a fact store and a path; when
\* the gate of line 137 lets it pass, _actual_loadFromSdmx runs on the file
Load(modelXbrl, filepath) ==
  /\ Len(history) < MaxSteps
  /\ history' = Append(history, Step("sdmxLoader", filepath))
  /\ LET content == disk[filepath]
         again == PathChanged(filepath, lastFilePath)
         s == isSdmxLoadable(filepath, content)
         isSDMX == IF again THEN s.result ELSE lastFilePathIsSDMX
         sniffErrors == IF again THEN s.errors ELSE <<>>
         xs == [xmlStore[modelXbrl] EXCEPT !.units = @ + 1]
         b == XmlBranch(sdmxStructures[modelXbrl], xs, content)
     IN
       /\ lastFilePath' = filepath
       /\ lastFilePathIsSDMX' = isSDMX
       /\ IF ~isSDMX
          THEN /\ call' = [op |-> "sdmxLoader", store |-> modelXbrl, path |-> filepath,
                           content |-> content, result |-> "null",
                           errors |-> sniffErrors, proceeded |-> FALSE,
                           reference |-> NoRef, retrieved |-> NoDsd]
               /\ UNCHANGED <<sdmxStructures, xmlStore>>
          ELSE IF content.text = "xml"
          THEN /\ call' = [op |-> "sdmxLoader", store |-> modelXbrl, path |-> filepath,
                           content |-> content,
                           result |-> IF b.missing THEN "null" ELSE "none",
                           errors |-> sniffErrors \o b.errors, proceeded |-> TRUE,
                           reference |-> b.reference, retrieved |-> b.retrieved]
               /\ sdmxStructures' = [sdmxStructures EXCEPT ![modelXbrl] = b.structures]
               /\ xmlStore' = [xmlStore EXCEPT ![modelXbrl] =
                                 [xs EXCEPT !.contexts = b.contexts,
                                            !.currentSdmxActiveDsd = b.currentSdmxActiveDsd]]
          ELSE \* the tabular parser takes over (specification Spec)
               /\ call' = [op |-> "sdmxLoader", store |-> modelXbrl, path |-> filepath,
                           content |-> content, result |-> "none",
                           errors |-> sniffErrors, proceeded |-> TRUE,
                           reference |-> NoRef, retrieved |-> NoDsd]
               /\ xmlStore' = [xmlStore EXCEPT ![modelXbrl] = xs]
               /\ UNCHANGED sdmxStructures
  /\ UNCHANGED disk
  /\ UNCHANGED csvVars

\* between two calls the file at a path is replaced
Replace(filepath, content) ==
  /\ Len(history) < MaxSteps
  /\ history' = Append(history, Step("replace", filepath))
  /\ disk[filepath] # content
  /\ disk' = [disk EXCEPT ![filepath] = content]
  /\ UNCHANGED <<lastFilePath, lastFilePathIsSDMX, sdmxStructures, xmlStore, call>>
  /\ UNCHANGED csvVars

SniffStep == \E filepath \in Paths : Sniff(filepath)

LoadStep == \E modelXbrl \in Stores, filepath \in Paths : Load(modelXbrl, filepath)

ReplaceStep == \E filepath \in XmlPaths, content \in ReplaceDocs : Replace(filepath, content)

NextHost == SniffStep \/ LoadStep \/ ReplaceStep

SpecHost == InitHost /\ [][NextHost]_vars

\* ---- an observation row under an active series key, its context resolved
\* (lines 1092-1096, 1229-1354)
\* key rows: shorter than the header, with a cell for every dimension column
SeriesKeyRowsUnder(hdr) ==
  {SubSeq(RowOf(hdr, Cell("A", "DE", "2020-01-01", "200", "E", 0)), 1, n) :
      n \in {k \in 1..(Len(hdr) - 1) :
                \A j \in 1..Len(hdr) : hdr[j] \in DOMAIN dimMappings => j <= k}}

FullRowsUnder(hdr) == {RowOf(hdr, rec) : rec \in {r \in Records : r.cells = 0}}

InitSeries ==
  /\ file = <<>> /\ seriesAttrValues = <<>>
  /\ exc = "none" /\ result = "none" /\ rowIdx = 0
  /\ numFactsLoaded = 0 /\ numFactsSkipped = 0 /\ warnings = <<>>
  /\ rowLog = <<>> /\ loadNo = 0 /\ pc = "idle" /\ res = "none"
  /\ HostIdle
  /\ header \in Headers
  /\ seriesKeys \in SeriesKeyRowsUnder(header)
  /\ arg \in FullRowsUnder(header)
  /\ measureKind \in {"numeric", "text"}
  /\ facts = <<>>
  /\ contexts = <<HostContext>>
  /\ units = {"uEUR"}
  /\ existingFacts = NoDims

ApplySeries ==
  /\ pc = "idle"
  /\ pc' = "applied"
  /\ LET r == WithContext(<<>>, contexts, HostContext.id,
                          PadSeriesKeys(seriesKeys, Len(header)), arg,
                          ObsValueCol, ObsUnitCol, Cols.obsAttributes)
     IN /\ contexts' = r.contexts
        /\ units' = r.units
        /\ facts' = r.facts
        /\ existingFacts' = r.existingFacts
        /\ numFactsLoaded' = numFactsLoaded + r.loaded
        /\ numFactsSkipped' = numFactsSkipped + r.skipped
        /\ warnings' = warnings \o r.warns
        /\ exc' = r.exc
        /\ res' = r.outcome
  /\ UNCHANGED <<file, measureKind, result, header, seriesAttrValues, rowIdx,
                 seriesKeys, rowLog, loadNo, arg>>
  /\ UNCHANGED hostVars

SpecSeries == InitSeries /\ [][ApplySeries]_vars

\* ---- the row loop on longer documents: the state in which StartLoad leaves
\* the first load of a document into an empty store, header in line one, a
\* full data line after it (consumed by the skip) and MaxLoopRows lines more
MaxLoopRows == 3

LoopRecords ==
  { Cell("",  "DE", "2020-01-01", "100", "",  0),
    Cell("A", "DE", "2020-01-01", "100", "",  2),
    Cell("A", "DE", "2020-01-01", "100", "E", 0),
    Cell("A", "DE", "2020",       "100", "",  0) }

InitLoop ==
  /\ \E hdr \in Headers, rs \in [1..MaxLoopRows -> LoopRecords] :
        /\ header = hdr
        /\ file = <<hdr, RowOf(hdr, Cell("A", "DE", "2020-01-01", "100", "E", 0))>>
                    \o [i \in 1..MaxLoopRows |-> RowOf(hdr, rs[i])]
  /\ measureKind = "numeric" /\ contexts = <<>> /\ facts = <<>>
  /\ units = {PureUnitId(1)}
  /\ existingFacts = ExistingFactsOf(facts)
  /\ seriesAttrValues = <<>>
  /\ pc = "rows" /\ rowIdx = 2 /\ loadNo = 1
  /\ exc = "none" /\ result = "none" /\ seriesKeys = <<>>
  /\ numFactsLoaded = 0 /\ numFactsSkipped = 0 /\ warnings = <<>> /\ rowLog = <<>>
  /\ arg = "none" /\ res = "none"
  /\ HostIdle

NextLoop == ProcessRow \/ FinishLoad

SpecLoop == InitLoop /\ [][NextLoop]_vars

\* ---- the first pass on its own: header detection, the series-attribute
\* test, column classification and the primary measure (lines 862-959), on
\* documents of two lines
LineLen == 3

\* cells of a line: column names of the mapping document, the empty cell, and
\* "A", which is a value under a column and an unmapped name in a header
LineCells == {"", "FREQ", "OBS_VALUE", "TURNOVER", "OBS_STATUS", "A"}

Lines == [1..LineLen -> LineCells]

\* lines 903-959: how the first pass ends for the document f
FirstPass(f) ==
  LET h == DetectHeader(f)
      cols == ClassifyColumns(h.header)
      col == ResolveObsValueCol(h.header, cols)
  IN  [header |-> h.header, found |-> h.found,
       seriesAttrValues |-> h.seriesAttrValues,
       cols |-> cols, obsValueCol |-> col,
       outcome |-> IF h.exc # "none" THEN h.exc
                   ELSE IF h.missing THEN "loadFromSdmxCsvError"
                   ELSE IF ~h.found THEN "loadFromSdmxCsvNoHeader"
                   ELSE IF col = -1 THEN "loadFromSdmxCsvNoObsValue"
                   ELSE "continues"]

InitHeader ==
  /\ NoLoad /\ EmptyStore /\ HostIdle
  /\ arg \in {<<first, second>> : first \in Lines, second \in Lines}
  /\ res = "none"

ApplyHeader ==
  /\ pc = "idle"
  /\ pc' = "applied"
  /\ res' = FirstPass(arg)
  /\ UNCHANGED <<file, measureKind, contexts, units, facts, exc, result, header,
                 seriesAttrValues, existingFacts, rowIdx, seriesKeys, numFactsLoaded,
                 numFactsSkipped, warnings, rowLog, loadNo, arg>>
  /\ UNCHANGED hostVars

SpecHeader == InitHeader /\ [][ApplyHeader]_vars

\* ---- a row whose context is in the store, from the observation value to the
\* duplicate check (lines 1229-1337), on stores that hold the unit of their
\* fact and stores whose fact names a unit the store has no element for
SkipHeaders == { <<"FREQ", "TIME_PERIOD", "OBS_VALUE", "OBS_STATUS">>,
                 <<"TIME_PERIOD", "FREQ", "OBS_VALUE", "OBS_STATUS">> }

SkipRowsUnder(hdr) ==
  {RowOf(hdr, Cell("A", "DE", "2020-01-01", v, s, 0)) : v \in {"", "100", "200"},
                                                         s \in {"", "E"}}

InitSkip ==
  /\ file = <<>> /\ seriesAttrValues = <<>>
  /\ exc = "none" /\ result = "none" /\ rowIdx = 0 /\ seriesKeys = <<>>
  /\ numFactsLoaded = 0 /\ numFactsSkipped = 0 /\ warnings = <<>>
  /\ rowLog = <<>> /\ loadNo = 0 /\ pc = "idle" /\ res = "none"
  /\ HostIdle
  /\ header \in SkipHeaders
  /\ arg \in SkipRowsUnder(header)
  /\ measureKind \in {"numeric", "text"}
  /\ facts \in HostPopulations(measureKind)
  /\ contexts = <<HostContext>>
  /\ units \in {{"uEUR"}, {}}
  /\ existingFacts = ExistingFactsOf(facts)

ApplySkip ==
  /\ pc = "idle"
  /\ pc' = "applied"
  /\ LET r == WithContext(<<>>, contexts, HostContext.id, arg, arg,
                          ObsValueCol, ObsUnitCol, Cols.obsAttributes)
     IN /\ contexts' = r.contexts
        /\ units' = r.units
        /\ facts' = r.facts
        /\ existingFacts' = r.existingFacts
        /\ numFactsLoaded' = numFactsLoaded + r.loaded
        /\ numFactsSkipped' = numFactsSkipped + r.skipped
        /\ warnings' = warnings \o r.warns
        /\ exc' = r.exc
        /\ res' = r.outcome
  /\ UNCHANGED <<file, measureKind, result, header, seriesAttrValues, rowIdx,
                 seriesKeys, rowLog, loadNo, arg>>
  /\ UNCHANGED hostVars

SpecSkip == InitSkip /\ [][ApplySkip]_vars

\* ---- the context identifier of two observations of one load (lines 966-970
\* and 1197-1206): the pattern filled with the values the loop of line 1199
\* is written to collect
IdHeaders == { <<"REF_AREA", "UNIT_MEASURE", "TIME_PERIOD", "OBS_VALUE">>,
               <<"UNIT_MEASURE", "FREQ", "REF_AREA", "TIME_PERIOD", "OBS_VALUE">> }

\* literals of the typed dimensions; "_" is the separator of the pattern
TypedLiterals == {"a", "b", "a_b", "b_b"}

\* resolved observations: member of FREQ, literals of the typed dimensions, day
ContextKeys ==
  [FREQ : {"memA", "memM"}, REF_AREA : TypedLiterals, UNIT_MEASURE : TypedLiterals,
   TIME_PERIOD : {"2020-01-01", "2021-01-01"}]

\* cntxDimValues of an observation under the header hdr
CntxDimValuesOf(hdr, key) ==
  [n \in {c \in Range(hdr) : c \in DOMAIN dimMappings /\ c # "TIME_PERIOD"} |-> key[n]]

\* line 1206 for an observation under the header hdr
ContextIdOf(hdr, key) ==
  LET dimCols == ClassifyColumns(hdr).dimCols
      period == [kind |-> "instant", instant |-> key.TIME_PERIOD,
                 start |-> None, end |-> None]
  IN  FormatPattern(CntxIdPattern(dimCols),
                    CntxIdFormatValues(dimCols, CntxDimValuesOf(hdr, key),
                                       EntityIdentValue, period))

InitId ==
  /\ NoLoad /\ EmptyStore /\ HostIdle
  /\ \E hdr \in IdHeaders :
        arg \in {<<hdr, k1, k2>> : k1 \in {k \in ContextKeys : k.FREQ = "memA"},
                                   k2 \in {k \in ContextKeys : k.TIME_PERIOD = "2020-01-01"}}
  /\ res = "none"

ApplyId ==
  /\ pc = "idle"
  /\ pc' = "applied"
  /\ res' = <<ContextIdOf(arg[1], arg[2]), ContextIdOf(arg[1], arg[3])>>
  /\ UNCHANGED <<file, measureKind, contexts, units, facts, exc, result, header,
                 seriesAttrValues, existingFacts, rowIdx, seriesKeys, numFactsLoaded,
                 numFactsSkipped, warnings, rowLog, loadNo, arg>>
  /\ UNCHANGED hostVars

SpecId == InitId /\ [][ApplyId]_vars

\* ---- RuntimeOptions: the constructor and attribute access
\* (src/arelle/RuntimeOptions.py)
\* fields of the dataclass with their defaults (lines 28-147), as far as
\* __post_init__ reads them
BaseDefaults ==
  [_initialized |-> "False", pluginOptions |-> None, strictOptions |-> "True",
   calFile |-> None, entrypointFile |-> None, plugins |-> None, proxy |-> None,
   webserver |-> None]

BaseOptionNames == DOMAIN BaseDefaults

\* names plugins introduce, and base names a plugin may ask for by mistake
PluginOptionNames == {"sdmxMap", "saveSDMX", "entrypointFile", "strictOptions"}

OptionValues == {None, "a", "b"}

\* the keyword arguments of a construction and whether the webserver module exists
Constructions ==
  [entrypointFile : {None, "a"}, webserver : {None, "b"}, plugins : {None, "a"},
   calFile : {None, "a"}, strictOptions : {"True", "False"}, hasWebServer : BOOLEAN,
   pluginOptions : UNION {[S -> OptionValues] : S \in SUBSET PluginOptionNames}]

\* the generated __init__: every field from its argument or its default
InitFields(c) ==
  [n \in BaseOptionNames |->
     IF n \in {"entrypointFile", "webserver", "plugins", "calFile", "strictOptions"}
     THEN c[n] ELSE BaseDefaults[n]]

\* a constructor that finds no plugin option among the base options
NoExistingBaseOptions(attrs, pluginOptions) == {}

\* lines 193-197: the plugin option names the object already has
ExistingBaseOptions(attrs, pluginOptions) ==
  {optionName \in DOMAIN pluginOptions : optionName \in DOMAIN attrs}

\* lines 200-201: setattr for every plugin option
SetPluginOptions(attrs, pluginOptions) ==
  [n \in DOMAIN attrs \cup DOMAIN pluginOptions |->
     IF n \in DOMAIN pluginOptions THEN pluginOptions[n] ELSE attrs[n]]

\* lines 186-218: __post_init__ on the fields of a new object; what it raises
\* and the attributes the object then has
PostInit(attrs, pluginOptions, hasWebServer) ==
  LET given == DOMAIN pluginOptions # {}
      applied == IF given THEN SetPluginOptions(attrs, pluginOptions) ELSE attrs
      truthy(n) == ~Falsy(applied[n])
  IN IF given /\ ExistingBaseOptions(attrs, pluginOptions) # {}
     THEN [raised |-> "RuntimeOptionsException", attrs |-> attrs]
     ELSE IF /\ applied["entrypointFile"] = None /\ ~truthy("proxy")
             /\ ~truthy("plugins") /\ ~given /\ ~truthy("webserver")
     THEN [raised |-> "RuntimeOptionsException", attrs |-> applied]
     ELSE IF truthy("webserver") /\ ~hasWebServer
     THEN [raised |-> "RuntimeOptionsException", attrs |-> applied]
     ELSE IF truthy("webserver") /\ (truthy("entrypointFile") \/ truthy("calFile"))
     THEN [raised |-> "RuntimeOptionsException", attrs |-> applied]
     ELSE [raised |-> "none", attrs |-> [applied EXCEPT !["_initialized"] = "True"]]

\* attribute access: the instance dictionary, then __getattr__ (lines 167-176)
GetAttr(attrs, name) ==
  IF name \in DOMAIN attrs THEN attrs[name]
  ELSE IF attrs["_initialized"] = "True" /\ attrs["strictOptions"] # "True" THEN None
  ELSE "AttributeError"

InitOptions == NoLoad /\ EmptyStore /\ HostIdle /\ arg \in Constructions

ApplyOptions ==
  /\ pc = "idle"
  /\ pc' = "applied"
  /\ res' = PostInit(InitFields(arg), arg.pluginOptions, arg.hasWebServer)
  /\ UNCHANGED <<file, measureKind, contexts, units, facts, exc, result, header,
                 seriesAttrValues, existingFacts, rowIdx, seriesKeys, numFactsLoaded,
                 numFactsSkipped, warnings, rowLog, loadNo, arg>>
  /\ UNCHANGED hostVars

SpecOptions == InitOptions /\ [][ApplyOptions]_vars

\* ------------------------------------------------ what a row of a document says
\* The properties below read a row by its cells, under the header of the load.
Ended == pc \in {"returned", "raised"}

\* rows the first pass and the skip of lines 1015-1020 leave to the row loop
SkippedRows ==
  LET h == DetectHeader(file)
  IN h.headerLineNum + 1 + (IF h.seriesAttrValues # <<>> THEN 1 ELSE 0)

DataRows == (SkippedRows + 1)..Len(file)

\* the stripped cell under a column name, "" when the row has none
CellAt(row, name) ==
  LET j == IndexOf(header, name)
  IN IF j # -1 /\ j < Len(row) /\ row[j + 1] # None THEN Strip(row[j + 1]) ELSE ""

DimNames == {n \in Range(header) : n \in DOMAIN dimMappings /\ n # "TIME_PERIOD"}

IsExplicit(n) == ~dimMappings[n][4]

MemberTable(n) ==
  IF dimMappings[n][1] \in DOMAIN memMappings THEN memMappings[dimMappings[n][1]]
  ELSE NoDims

DimResolves(row, n) ==
  /\ CellAt(row, n) # ""
  /\ IsExplicit(n) => CellAt(row, n) \in DOMAIN MemberTable(n)

ResolvedValue(row, n) ==
  IF IsExplicit(n) THEN MemberTable(n)[CellAt(row, n)] ELSE CellAt(row, n)

IsDateLiteral(v) == DateUnionKind(v) \in {"date", "dateTime"}

HasYearMonthForm(v) == TimeLex(v).len = 7 /\ TimeLex(v).c4 = "-"

IsYearMonth(v) ==
  HasYearMonthForm(v) /\ TimeLex(v).year >= 1 /\ TimeLex(v).month \in 1..12

\* the period a TIME_PERIOD literal denotes
PeriodSaid(v) ==
  IF IsDateLiteral(v)
  THEN [kind |-> "instant", instant |-> v, start |-> None, end |-> None]
  ELSE [kind |-> "duration", instant |-> None, start |-> v \o "-01",
        end |-> v \o "-last"]

\* a full row that carries every dimension, a period and a value
WellFormedObs(row) ==
  /\ header # <<>>
  /\ Len(row) = Len(header)
  /\ \A n \in DimNames : DimResolves(row, n)
  /\ IsDateLiteral(CellAt(row, "TIME_PERIOD")) \/ IsYearMonth(CellAt(row, "TIME_PERIOD"))
  /\ CellAt(row, "OBS_VALUE") # ""

ObsRows == {i \in DataRows : WellFormedObs(file[i])}

\* no data row is a series key row
Flat == \A i \in DataRows : Len(file[i]) = Len(header)

\* period and set of (dimension, resolved value) pairs: the ContextKey of a row
\* within one load, whose entity is fixed
ContextKeyOf(row) ==
  <<PeriodSaid(CellAt(row, "TIME_PERIOD")),
    {<<dimMappings[n][1], ResolvedValue(row, n)>> : n \in DimNames}>>

ContextKeyOfContext(c) ==
  <<c.period, {<<dimMappings[n][1], c.dims[n]>> : n \in DOMAIN c.dims}>>

ContextsOfKey(key) == {k \in 1..Len(contexts) : ContextKeyOfContext(contexts[k]) = key}

ContextOfFact(f) == contexts[CHOOSE k \in 1..Len(contexts) : contexts[k].id = f.contextID]

FactsOfKey(key) ==
  {k \in 1..Len(facts) : /\ facts[k].contextID \in ContextIds
                         /\ ContextKeyOfContext(ContextOfFact(facts[k])) = key}

LogOf(i) == {k \in 1..Len(rowLog) : rowLog[k].row = i}

\* an identifier that is a function of the entity, the period and the set of
\* pairs alone: the values in ascending order of their dimension concept
RECURSIVE AscendingValues(_)
AscendingValues(pairs) ==
  IF pairs = {} THEN ""
  ELSE LET m == CHOOSE x \in pairs : \A y \in pairs : QnRank(x[1]) <= QnRank(y[1])
       IN "_" \o m[2] \o AscendingValues(pairs \ {m})

CanonicalContextId(row) ==
  ColonToUnderscore(EntityIdentValue) \o "_" \o PeriodId(ContextKeyOf(row)[1])
     \o AscendingValues(ContextKeyOf(row)[2])

\* ------------------------------------------------------------- properties

\* C2: when the same document is loaded a second time, the second load creates
\* no fact and every observation row of it is skipped as a duplicate.
C2_SecondLoadSkipsAll ==
  (loadNo = 2 /\ Ended /\ Flat) =>
     /\ numFactsLoaded = 0
     /\ \A i \in ObsRows : \E k \in LogOf(i) : rowLog[k].outcome = "skipDuplicate"

\* the store was handed over empty (no fact, no context of the host)
HostEmpty == \A k \in 1..Len(contexts) : contexts[k] # HostContext

\* C3: of two observation rows of one load with the same key (the documents
\* have one measure, one unit and one language, so the FactKey is the context)
\* and different values, where nothing held the key before, exactly one fact
\* remains and it carries the value of the first row.
C3_FirstValueWins ==
  (loadNo = 1 /\ Ended /\ Flat /\ HostEmpty) =>
     \A i, j \in ObsRows :
        ( /\ i < j
          /\ ContextKeyOf(file[i]) = ContextKeyOf(file[j])
          /\ CellAt(file[i], "OBS_VALUE") # CellAt(file[j], "OBS_VALUE")
          /\ \A h \in ObsRows : h < i => ContextKeyOf(file[h]) # ContextKeyOf(file[i]) )
        => ( /\ Cardinality(FactsOfKey(ContextKeyOf(file[i]))) = 1
             /\ \A k \in FactsOfKey(ContextKeyOf(file[i])) :
                   facts[k].value = CellAt(file[i], "OBS_VALUE") )

\* C4: a row whose FactKey a fact of the existing population holds is skipped
\* without a message when its value is that fact's value, and skipped with the
\* conflict warning when it differs, whether the measure is numeric or text.
FactKeyOfFact(f) ==
  <<f.qname, f.contextID, f.unitID, IF f.isNumeric THEN None ELSE f.xmlLang>>

FactKeyOfArg ==
  <<measureMappings["OBS_VALUE"], arg.contextID, arg.unitId,
    IF MeasureIsXbrlText THEN arg.factLang ELSE None>>

\* the population before the row: createFact appends
PopulationBefore == IF res = "created" THEN SubSeq(facts, 1, Len(facts) - 1) ELSE facts

C5_ContextIdOfKeyAlone ==
  \A k \in 1..Len(rowLog) :
     WellFormedObs(rowLog[k].cells) =>
        rowLog[k].contextID = CanonicalContextId(rowLog[k].cells)

\* C6: observation rows of one load with equal ContextKeys share one context:
\* the store holds exactly one context of that key when the load has ended.
C6_OneContextPerKey ==
  (loadNo = 1 /\ Ended /\ Flat) =>
     \A i, j \in ObsRows :
        (i < j /\ ContextKeyOf(file[i]) = ContextKeyOf(file[j]))
        => Cardinality(ContextsOfKey(ContextKeyOf(file[i]))) = 1

Unsigned(cs) == IF cs # <<>> /\ Head(cs) \in {"+", "-"} THEN Tail(cs) ELSE cs

PlainSignedDecimal(cs) ==
  LET body == Unsigned(cs)
  IN /\ \A i \in 1..Len(body) : body[i] \in Digits \cup {"."}
     /\ Cardinality({i \in 1..Len(body) : body[i] = "."}) <= 1
     /\ \E i \in 1..Len(body) : body[i] \in Digits

DigitsAfterPoint(cs) ==
  IF "." \in Range(cs)
  THEN Len(cs) - (CHOOSE i \in 1..Len(cs) : cs[i] = ".")
  ELSE 0

DigitCount(cs) == Cardinality({i \in 1..Len(cs) : cs[i] \in Digits})

C9_YearMonthIsDuration ==
  \A k \in 1..Len(rowLog) :
     ( /\ WellFormedObs(rowLog[k].cells)
       /\ IsYearMonth(CellAt(rowLog[k].cells, "TIME_PERIOD")) )
     => /\ rowLog[k].periodStart = CellAt(rowLog[k].cells, "TIME_PERIOD") \o "-01"
        /\ rowLog[k].periodEnd = CellAt(rowLog[k].cells, "TIME_PERIOD") \o "-last"
        /\ rowLog[k].outcome \notin {"skipDimension", "skipPeriod"}
        /\ rowLog[k].exc # "NameError"

\* C10: a full row with a missing non-time dimension, an explicit dimension
\* value without member mapping, or a TIME_PERIOD that is neither a date nor of
\* the form YYYY-MM creates no fact, is warned about, counts as one skipped row
\* and leaves the loop running.
RowLevelFailure(row) ==
  /\ header # <<>>
  /\ Len(row) = Len(header)
  /\ \/ \E n \in DimNames : ~DimResolves(row, n)
     \/ /\ CellAt(row, "TIME_PERIOD") # ""
        /\ ~IsDateLiteral(CellAt(row, "TIME_PERIOD"))
        /\ ~HasYearMonthForm(CellAt(row, "TIME_PERIOD"))

C10_RowFailureSkipsRow ==
  \A k \in 1..Len(rowLog) :
     RowLevelFailure(rowLog[k].cells) =>
        /\ rowLog[k].outcome \in {"skipDimension", "skipPeriod"}
        /\ rowLog[k].warns # <<>>
        /\ rowLog[k].skipped = 1
        /\ rowLog[k].exc = "none"

\* C11: a row whose OBS_UNIT code is not in the units mapping, or whose
\* OBS_LANG code is not in the languages mapping, is skipped: no fact is
\* created for it, a warning is reported and the loop goes on.
HasUnknownUnit(row) ==
  CellAt(row, "OBS_UNIT") # "" /\ CellAt(row, "OBS_UNIT") \notin UnitCodes

HasUnknownLang(row) ==
  CellAt(row, "OBS_LANG") # "" /\ CellAt(row, "OBS_LANG") \notin DOMAIN languageMappings

C12_NoUnhandledException ==
  /\ pc # "raised"
  /\ exc = "none"
  /\ (pc = "returned" => result \in {"modelXbrl", "null"})

\* C14: a load of a CSV document whose header is detected and whose
\* primary-measure column is resolved returns the fact store and reports the
\* completion summary exactly once, also when no data row follows the header
\* or the series-attribute row.
HeaderAndMeasureResolved ==
  LET h == DetectHeader(file)
  IN /\ h.exc = "none" /\ h.found /\ ~h.missing
     /\ ResolveObsValueCol(h.header, ClassifyColumns(h.header)) # -1

CompletionSummaries ==
  {k \in 1..Len(warnings) : warnings[k] \in {"Complete", "NoFactsLoaded"}}

C14_SummaryOnEveryParsedDocument ==
  (Ended /\ HeaderAndMeasureResolved) =>
     /\ pc = "returned"
     /\ result = "modelXbrl"
     /\ Cardinality(CompletionSummaries) = 1

\* C13: a load that aborts with a structural error (the header is not
\* detected, the primary-measure column is not resolved) leaves the fact store
\* of the host as it was before the call: no context, no unit and no fact has
\* been created in it.
StructuralAbort ==
  /\ StartLoad
  /\ pc' = "returned" /\ result' = "null" /\ warnings' = <<>>

C13_AbortLeavesStoreUnchanged ==
  [][StructuralAbort => (contexts' = contexts /\ units' = units /\ facts' = facts)]_vars

\* ------------------------------------------- what a call of the host says
\* the state right after a call: no file has been replaced since
JustCalled(op) ==
  /\ call.op = op
  /\ history # <<>>
  /\ history[Len(history)] = Step(op, call.path)

DataMessageTypes == {"GenericData", "StructureSpecificData"}

\* C15: a CSV document handed to sdmxLoader passes the sniffer gate and goes
\* on to the tabular parser; the call does not end with null at the gate.
C15_CsvPassesSnifferGate ==
  (JustCalled("sdmxLoader") /\ call.content.text = "csv") =>
     (call.proceeded /\ call.result # "null")

\* C16: sdmxLoader goes on to load the file at a path only if the content the
\* file has at the time of the call is one the sniffer recognizes, whatever
\* calls and file replacements came before.
C16_LoadsOnlyRecognizedContent ==
  (JustCalled("sdmxLoader") /\ call.proceeded) =>
     isSdmxLoadable(call.path, call.content).result

\* C17: for a file with the XML extension whose root element is in neither
\* SDMX namespace, isSdmxLoadable returns False without an error, and a call
\* of sdmxLoader on that path that follows a sniff of the file returns null,
\* reports no error and does not start the load, whether or not another path
\* was sniffed in between.
RootNotSdmx(filepath, content) ==
  /\ Lower(filepath.ext) = ".xml"
  /\ content.text = "xml"
  /\ content.namespace \notin {SdmxV30, SdmxV21}

SniffedSinceReplaced(filepath) ==
  \E i \in 1..(Len(history) - 1) :
     /\ history[i] = Step("isSdmxLoadable", filepath)
     /\ \A j \in (i + 1)..(Len(history) - 1) : history[j] # Step("replace", filepath)

C17_UnrecognizedRootIsDeclined ==
  /\ (JustCalled("isSdmxLoadable") /\ RootNotSdmx(call.path, call.content)) =>
        (call.result = "False" /\ call.errors = <<>>)
  /\ (/\ JustCalled("sdmxLoader")
      /\ RootNotSdmx(call.path, call.content)
      /\ SniffedSinceReplaced(call.path)) =>
        (call.result = "null" /\ call.errors = <<>> /\ ~call.proceeded)

\* the file is sniffed, then a file of SDMX content at another path is
\* sniffed, then the loader is called on the first path
C17_DeclinedAfterOtherSniff ==
  /\ Len(history) = 3
  /\ history[1].op = "isSdmxLoadable"
  /\ history[2].op = "isSdmxLoadable"
  /\ history[2].path # history[1].path
  /\ disk[history[2].path].namespace \in {SdmxV30, SdmxV21}
  /\ JustCalled("sdmxLoader")
  /\ call.path = history[1].path
  /\ RootNotSdmx(call.path, call.content)
  /\ call.result = "null"
  /\ call.errors = <<>>

\* C18: the registry only grows: an entry stored under a key (concept scheme,
\* codelist or data structure definition) is never removed and never replaced
\* by a later load.
EntriesKept(before, after) ==
  /\ before.concept_schemes \subseteq after.concept_schemes
  /\ before.codelists \subseteq after.codelists
  /\ before.dsds \subseteq after.dsds

C18_RegistryOnlyGrows ==
  [][\A m \in Stores : EntriesKept(sdmxStructures[m], sdmxStructures'[m])]_vars

\* C19: once a Structure message defining the data structure S has been
\* loaded, a data message whose header refers to S finds S, whichever fact
\* store the load is for and whether the header names S by URN or by agency,
\* id and version.
UrnIdentity(urn) == IF urn = ExrUrn THEN <<"ECB", "EXR", "1.0">> ELSE <<>>

IdentityOfRef(ref) ==
  IF ref.via = "URN" THEN UrnIdentity(ref.urn)
  ELSE IF ref.via = "Ref" THEN <<ref.agencyID, ref.id, ref.version>>
  ELSE <<>>

IdentityOfDsd(d) == <<d.agencyID, d.id, d.version>>

StructureLoaded(identity) ==
  \E m \in Stores : \E e \in sdmxStructures[m].dsds : IdentityOfDsd(e.dsd) = identity

C19_LoadedStructureIsFound ==
  (/\ JustCalled("sdmxLoader") /\ call.proceeded
   /\ call.content.localname \in DataMessageTypes
   /\ IdentityOfRef(call.reference) # <<>>
   /\ StructureLoaded(IdentityOfRef(call.reference))) =>
     (/\ call.retrieved # NoDsd
      /\ IdentityOfDsd(call.retrieved.dsd) = IdentityOfRef(call.reference))

\* C20: when the data structure a data message refers to is not found, a
\* StructureSpecificData load ends with an error and null, while a GenericData
\* load does not end with an error report and null.
C20_GenericDataDegrades ==
  (/\ JustCalled("sdmxLoader") /\ call.proceeded
   /\ call.content.localname \in DataMessageTypes
   /\ call.retrieved = NoDsd) =>
     IF call.content.localname = "StructureSpecificData"
     THEN call.result = "null" /\ call.errors # <<>>
     ELSE ~(call.result = "null" /\ call.errors # <<>>)

\* C21: a construction with a plugin option named like a base option raises
\* RuntimeOptionsException before any plugin option is applied, so that no
\* base option ever holds a plugin value; without such a name every plugin
\* option of a construction that succeeds is read back with its value.
Collides == \E n \in DOMAIN arg.pluginOptions : n \in BaseOptionNames

C21_BaseOptionsWin ==
  pc = "applied" =>
     /\ \A n \in BaseOptionNames \ {"_initialized"} : res.attrs[n] = InitFields(arg)[n]
     /\ Collides => (res.raised = "RuntimeOptionsException" /\ res.attrs = InitFields(arg))
     /\ (~Collides /\ res.raised = "none") =>
           \A n \in DOMAIN arg.pluginOptions : GetAttr(res.attrs, n) = arg.pluginOptions[n]

\* a plugin asks for entrypointFile with a value other than the base value,
\* next to an option of its own
C21_CollisionRaised ==
  /\ pc = "applied"
  /\ "entrypointFile" \in DOMAIN arg.pluginOptions
  /\ "sdmxMap" \in DOMAIN arg.pluginOptions
  /\ arg.pluginOptions["entrypointFile"] = "b"
  /\ arg.entrypointFile = "a"
  /\ res.raised = "RuntimeOptionsException"
  /\ "sdmxMap" \notin DOMAIN res.attrs

\* C22: the data rows processed are exactly the rows after the header: the
\* first row the loop takes is the row right after the header, or right after
\* the series-attribute row when the header is followed by one, and a load
\* that returns the store has taken every row from there to the end.
HeaderRowIndex == Min({i \in 1..Len(file) : file[i] = header})

FirstDataRow == HeaderRowIndex + 1 + (IF seriesAttrValues # <<>> THEN 1 ELSE 0)

C22_DataRowsFollowHeader ==
  (pc \in {"rows", "returned", "raised"} /\ DetectHeader(file).found
   /\ HeaderAndMeasureResolved) =>
     /\ rowLog # <<>> => rowLog[1].row = FirstDataRow
     /\ (pc = "returned" /\ result = "modelXbrl") =>
           {rowLog[k].row : k \in 1..Len(rowLog)} = FirstDataRow..Len(file)

FullLength(i) == Len(file[i]) >= Len(header)

C24_FlatFileStaysFlat ==
  (rowLog # <<>> /\ FullLength(rowLog[1].row)) =>
     \A k \in 1..Len(rowLog) :
        (FullLength(rowLog[k].row) /\ rowLog[k].outcome # "empty") =>
           rowLog[k].cells = file[rowLog[k].row]

\* the roles column i (0-based) of a classified header has
RolesOf(cols, i) ==
  (IF \E d \in Range(cols.dimCols) : d[1] = i THEN {"Dimension"} ELSE {})
  \cup (IF \E m \in Range(cols.measureCols) : m[1] = i THEN {"Measure"} ELSE {})
  \cup (IF \E a \in Range(cols.attrCols) : a[1] = i THEN {"Attribute"} ELSE {})

\* C25: a load that goes on to row processing has given every non-empty header
\* cell exactly one of the roles Dimension, Measure, Attribute.
C25_EveryColumnHasOneRole ==
  (pc = "applied" /\ res.outcome = "continues") =>
     \A j \in 1..Len(res.header) :
        res.header[j] # "" => Cardinality(RolesOf(res.cols, j - 1)) = 1

\* C26: the line after the header is the series-attribute row only if every
\* cell under a dimension column is empty and some cell under an attribute
\* column is not.
C26_SeriesAttrRowNeedsAttribute ==
  (pc = "applied" /\ res.found /\ res.seriesAttrValues # <<>>) =>
     /\ \A j \in 1..LineLen :
           res.header[j] \in DOMAIN dimMappings => res.seriesAttrValues[j] = ""
     /\ \E j \in 1..LineLen :
           res.header[j] \in DOMAIN attributeMappings /\ res.seriesAttrValues[j] # ""

\* C27: a header without an OBS_VALUE column but with a mapped measure column
\* takes the first measure column as the primary measure and the load goes on.
C27_FirstMeasureIsFallback ==
  (pc = "applied" /\ res.found /\ res.outcome \in {"continues", "loadFromSdmxCsvNoObsValue"}
     /\ "OBS_VALUE" \notin Range(res.header) /\ res.cols.measureCols # <<>>) =>
        /\ res.outcome = "continues"
        /\ res.obsValueCol = res.cols.measureCols[1][1]

\* C30: the line accepted as the header has at least one non-empty cell.
C30_HeaderIsNotBlank ==
  (pc = "applied" /\ res.found) => \E j \in 1..Len(res.header) : res.header[j] # ""

\* C28: a row that is skipped, for whatever row-level reason, leaves the store
\* as it was: no context, no unit and no fact is added.
SkipOutcomes == {"skipDimension", "skipPeriod", "skipObsValue", "skipDuplicate",
                 "skipConflict"}

SameContextKey(hdr, k1, k2) ==
  /\ k1.TIME_PERIOD = k2.TIME_PERIOD
  /\ CntxDimValuesOf(hdr, k1) = CntxDimValuesOf(hdr, k2)

====
